---- MODULE Spec2Model ----
(***************************************************************************)
(* Model of the wallet commands (core/commands/wallet.go) and of the       *)
(* restart command (core/commands/restart.go) of go-btfs.                  *)
(*                                                                         *)
(* One request is handled at a time.  `run` is the record of the request   *)
(* being handled (restart) or handled last (wallet commands): its inputs,  *)
(* the calls it made in order, the error it returned and what it emitted.  *)
(* Error texts are sequences of words, so that strings.Contains is a real  *)
(* sub-sequence test; amounts are sequences of characters, so that         *)
(* strconv.ParseInt is a real parse.                                       *)
(***************************************************************************)
EXTENDS Integers, Sequences, FiniteSets, TLC

VARIABLES cfg, run, nsets, StorePath, OriginPath, osEnviron, IsDaemon,
          dataAt, props, children, exited

vars == <<cfg, run, nsets, StorePath, OriginPath, osEnviron, IsDaemon,
          dataAt, props, children, exited>>

-----------------------------------------------------------------------------
(* Bounds and input sets *)

\* successful password-set runs counted before the counter stops the command
MaxPasswordSets == 2

Passwords == {"", "pw1", "pw2"}
PrivKeys == {"k1", "k2"}
Mnemonics == {"m1"}
Paths == {"", "/data/new"}
Origins == {"", "/data/old"}
Environs == {<<"HOME=/root">>, <<"HOME=/root", "BTFS_PATH=/data/old">>}

\* amount arguments, as character sequences
AmountArgs ==
  { <<"+", "0", "7">>,
    <<>>,
    <<"-">>,
    <<"1", "x">>,
    <<"9","2","2","3","3","7","2","0","3","6","8","5","4","7","7","5","8","0","8">>,
    <<"-","9","2","2","3","3","7","2","0","3","6","8","5","4","7","7","5","8","0","8">> }

Addresses == {"TAddr1"}

-----------------------------------------------------------------------------
(* Errors and messages *)

NoErr == <<>>

ErrPasswordRequired ==
  <<"Password", "required,", "please", "use", "'-p <password>'", "to",
    "specify", "the", "password.", "Try",
    "'btfs wallet password --help'", "and", "assign", "a", "password",
    "if", "password", "is", "not", "set.">>

ErrIncorrectPassword == <<"incorrect", "password">>

ErrAlreadyInit == <<"Already", "init,", "cannot", "set", "password", "again.">>

DepositPhrase == <<"Please", "deposit", "at", "least">>
WithdrawPhrase == <<"Please", "withdraw", "at", "least">>

ErrDepositMin == <<"Please", "deposit", "at", "least", "10,000,000µBTT(=10BTT)">>
ErrWithdrawMin == <<"Please", "withdraw", "at", "least", "1,000,000,000µBTT(=1000BTT)">>

MsgDepositSubmitted ==
  "BTFS wallet deposit submitted. Please wait one minute for the transaction to confirm."
MsgDepositDone == "BTFS wallet deposit Done."
MsgWithdrawSubmitted ==
  "BTFS wallet withdraw submitted. Please wait one minute for the transaction to confirm."
MsgPasswordSet == "Password set."
MsgPasswordCorrect == "Password is correct."

\* error texts the wallet delegates can return
DelegateErrors ==
  { <<"rpc", "error:", "Please", "deposit", "at", "least", "10">>,
    <<"Please", "withdraw", "at", "least", "1000000000">>,
    <<"please", "deposit", "at", "least", "10">>,
    <<"Please", "deposit", "at", "most", "least">>,
    <<"insufficient", "balance">> }

ErrEncrypt == <<"crypto/aes:", "invalid", "key", "size">>
ErrSetConfig == <<"write", "config:", "permission", "denied">>
ErrMoveFolder == <<"move", "folder", "failed">>
ErrWriteProperties == <<"write", "properties", "failed">>
ErrStart == <<"exec:", "executable", "file", "not", "found">>

\* strings.Contains(s, sub), on word sequences
Contains(s, sub) ==
  \E i \in 0..(Len(s) - Len(sub)) :
     \A j \in 1..Len(sub) : s[i + j] = sub[j]

ErrGetNode == <<"node", "not", "available">>
ErrRepoConfig == <<"cannot", "access", "config,", "repo", "not", "open">>

-----------------------------------------------------------------------------
(* wallet.EncryptWithAES / wallet.DecryptWithAES: symmetric, deterministic  *)

\* the ciphertext of `plain` under the password-derived key of `key`
EncryptWithAES(key, plain) == "aes[" \o key \o "](" \o plain \o ")"

Plaintexts == PrivKeys \cup Mnemonics

\* The possible results of decrypting `message` with `key`.  With the key the
\* message was encrypted under, the plaintext comes back.  With any other key,
\* or on a message that is no ciphertext, decryption either reports an error
\* or returns bytes that are no plaintext of the wallet.
DecryptWithAES(key, message) ==
  IF \E p \in Plaintexts : message = EncryptWithAES(key, p)
    THEN { [err |-> FALSE,
            val |-> CHOOSE p \in Plaintexts : message = EncryptWithAES(key, p)] }
    ELSE { [err |-> TRUE, val |-> ""], [err |-> FALSE, val |-> "garbage"] }

-----------------------------------------------------------------------------
(* strconv.ParseInt(s, 10, 64) *)

Digits == {"0", "1", "2", "3", "4", "5", "6", "7", "8", "9"}

DigitVal(c) ==
  CASE c = "0" -> 0 [] c = "1" -> 1 [] c = "2" -> 2 [] c = "3" -> 3
    [] c = "4" -> 4 [] c = "5" -> 5 [] c = "6" -> 6 [] c = "7" -> 7
    [] c = "8" -> 8 [] c = "9" -> 9

\* 1<<63 - 1 and 1<<63, in decimal
MaxInt64Digits ==
  <<"9","2","2","3","3","7","2","0","3","6","8","5","4","7","7","5","8","0","7">>
MinInt64Digits ==
  <<"9","2","2","3","3","7","2","0","3","6","8","5","4","7","7","5","8","0","8">>

RECURSIVE StripZeros(_)
StripZeros(d) ==
  IF Len(d) > 1 /\ d[1] = "0" THEN StripZeros(Tail(d)) ELSE d

\* a <= b for two decimal numerals without leading zeros
NumeralLeq(a, b) ==
  \/ Len(a) < Len(b)
  \/ /\ Len(a) = Len(b)
     /\ \/ a = b
        \/ \E i \in 1..Len(a) :
              /\ \A j \in 1..(i - 1) : a[j] = b[j]
              /\ DigitVal(a[i]) < DigitVal(b[i])

ErrSyntax(s) == <<"strconv.ParseInt:", "parsing">> \o s \o <<":", "invalid", "syntax">>
ErrRange(s) == <<"strconv.ParseInt:", "parsing">> \o s \o <<":", "value", "out", "of", "range">>

\* [err, val]: val is the canonical numeral of the parsed value
ParseInt(s) ==
  IF s = <<>> THEN [err |-> ErrSyntax(s), val |-> <<"0">>]
  ELSE
    LET neg == s[1] = "-"
        d == IF s[1] \in {"+", "-"} THEN Tail(s) ELSE s
    IN IF d = <<>> \/ \E i \in 1..Len(d) : d[i] \notin Digits
         THEN [err |-> ErrSyntax(s), val |-> <<"0">>]
         ELSE
           LET m == StripZeros(d)
               lim == IF neg THEN MinInt64Digits ELSE MaxInt64Digits
           IN IF ~NumeralLeq(m, lim)
                THEN [err |-> ErrRange(s), val |-> IF neg THEN <<"-">> \o lim ELSE lim]
                ELSE [err |-> NoErr,
                      val |-> IF neg /\ m # <<"0">> THEN <<"-">> \o m ELSE m]

-----------------------------------------------------------------------------
(* The commands, as functions from a request to its outcome:               *)
(* [calls, raw, err, out, amount], where calls is the sequence of calls    *)
(* made, raw the error as first produced, err the error returned, out the  *)
(* values emitted and amount the parsed amount handed to the delegate.     *)

EnvFails == {"none", "GetNode", "Config"}

Outcome(calls, raw, err, out, amount) ==
  [calls |-> calls, raw |-> raw, err |-> err, out |-> out, amount |-> amount]

Fail(calls, err) == Outcome(calls, err, err, <<>>, <<>>)

\* validatePassword without the comparison with cfg.Identity.PrivKey
validatePassword_NoCompare(c, password, dec) ==
  IF password = ""
    THEN [err |-> ErrPasswordRequired, calls |-> <<"validatePassword">>]
    ELSE IF dec.err
      THEN [err |-> ErrIncorrectPassword,
            calls |-> <<"validatePassword", "DecryptWithAES">>]
      ELSE [err |-> NoErr, calls |-> <<"validatePassword", "DecryptWithAES">>]

\* validatePassword without the test for the empty password
validatePassword_NoEmptyCheck(c, password, dec) ==
  IF dec.err \/ c.PrivKey # dec.val
    THEN [err |-> ErrIncorrectPassword,
          calls |-> <<"validatePassword", "DecryptWithAES">>]
    ELSE [err |-> NoErr, calls |-> <<"validatePassword", "DecryptWithAES">>]

\* func validatePassword(cfg, req): dec is the result DecryptWithAES gives
validatePassword(c, password, dec) ==
  IF password = ""
    THEN [err |-> ErrPasswordRequired, calls |-> <<"validatePassword">>]
    ELSE IF dec.err \/ c.PrivKey # dec.val
      THEN [err |-> ErrIncorrectPassword,
            calls |-> <<"validatePassword", "DecryptWithAES">>]
      ELSE [err |-> NoErr, calls |-> <<"validatePassword", "DecryptWithAES">>]

\* walletDepositCmd.Run returning the delegate's error as it is
walletDepositRun_NoRewrite(c, password, async, arg, envFail, dec, daemon, derr) ==
  IF envFail = "GetNode" THEN Fail(<<"GetNode">>, ErrGetNode)
  ELSE IF envFail = "Config" THEN Fail(<<"GetNode", "Config">>, ErrRepoConfig)
  ELSE
    LET g == validatePassword(c, password, dec)
        c1 == <<"GetNode", "Config">> \o g.calls
    IN IF g.err # NoErr THEN Fail(c1, g.err)
       ELSE
         LET p == ParseInt(arg)
             c2 == c1 \o <<"ParseInt">>
         IN IF p.err # NoErr THEN Fail(c2, p.err)
            ELSE IF envFail = "GetNode2" THEN Fail(c2 \o <<"GetNode">>, ErrGetNode)
            ELSE
              LET runDaemon == daemon
                  c3 == c2 \o <<"GetNode", "WalletDeposit">>
              IN IF derr # NoErr
                   THEN Outcome(c3, derr,
                                derr,
                                <<>>, p.val)
                   ELSE Outcome(c3 \o <<"EmitOnce">>, NoErr, NoErr,
                                << [Message |-> IF ~runDaemon
                                                  THEN MsgDepositDone
                                                  ELSE MsgDepositSubmitted] >>,
                                p.val)

\* walletDepositCmd.Run choosing its message by the daemon state and the async flag
walletDepositRun_AsyncMsg(c, password, async, arg, envFail, dec, daemon, derr) ==
  IF envFail = "GetNode" THEN Fail(<<"GetNode">>, ErrGetNode)
  ELSE IF envFail = "Config" THEN Fail(<<"GetNode", "Config">>, ErrRepoConfig)
  ELSE
    LET g == validatePassword(c, password, dec)
        c1 == <<"GetNode", "Config">> \o g.calls
    IN IF g.err # NoErr THEN Fail(c1, g.err)
       ELSE
         LET p == ParseInt(arg)
             c2 == c1 \o <<"ParseInt">>
         IN IF p.err # NoErr THEN Fail(c2, p.err)
            ELSE IF envFail = "GetNode2" THEN Fail(c2 \o <<"GetNode">>, ErrGetNode)
            ELSE
              LET runDaemon == daemon
                  c3 == c2 \o <<"GetNode", "WalletDeposit">>
              IN IF derr # NoErr
                   THEN Outcome(c3, derr,
                                IF Contains(derr, DepositPhrase)
                                  THEN ErrDepositMin ELSE derr,
                                <<>>, p.val)
                   ELSE Outcome(c3 \o <<"EmitOnce">>, NoErr, NoErr,
                                << [Message |-> IF runDaemon /\ ~async
                                                  THEN MsgDepositDone
                                                  ELSE MsgDepositSubmitted] >>,
                                p.val)

\* walletDepositCmd.Run; envFail "GetNode2" is the failure of the second
\* cmdenv.GetNode; derr is the error of wallet.WalletDeposit (NoErr: none)
walletDepositRun(c, password, async, arg, envFail, dec, daemon, derr) ==
  IF envFail = "GetNode" THEN Fail(<<"GetNode">>, ErrGetNode)
  ELSE IF envFail = "Config" THEN Fail(<<"GetNode", "Config">>, ErrRepoConfig)
  ELSE
    LET g == validatePassword(c, password, dec)
        c1 == <<"GetNode", "Config">> \o g.calls
    IN IF g.err # NoErr THEN Fail(c1, g.err)
       ELSE
         LET p == ParseInt(arg)
             c2 == c1 \o <<"ParseInt">>
         IN IF p.err # NoErr THEN Fail(c2, p.err)
            ELSE IF envFail = "GetNode2" THEN Fail(c2 \o <<"GetNode">>, ErrGetNode)
            ELSE
              LET runDaemon == daemon
                  c3 == c2 \o <<"GetNode", "WalletDeposit">>
              IN IF derr # NoErr
                   THEN Outcome(c3, derr,
                                IF Contains(derr, DepositPhrase)
                                  THEN ErrDepositMin ELSE derr,
                                <<>>, p.val)
                   ELSE Outcome(c3 \o <<"EmitOnce">>, NoErr, NoErr,
                                << [Message |-> IF ~runDaemon
                                                  THEN MsgDepositDone
                                                  ELSE MsgDepositSubmitted] >>,
                                p.val)

\* walletWithdrawCmd.Run parsing the amount before it checks the password
walletWithdrawRun_ParseFirst(c, password, arg, envFail, dec, derr) ==
  IF envFail = "GetNode" THEN Fail(<<"GetNode">>, ErrGetNode)
  ELSE IF envFail = "Config" THEN Fail(<<"GetNode", "Config">>, ErrRepoConfig)
  ELSE
    LET p == ParseInt(arg)
        c1 == <<"GetNode", "Config", "ParseInt">>
    IN IF p.err # NoErr THEN Fail(c1, p.err)
       ELSE
         LET g == validatePassword(c, password, dec)
             c2 == c1 \o g.calls
         IN IF g.err # NoErr THEN Fail(c2, g.err)
            ELSE
              LET c3 == c2 \o <<"WalletWithdraw">>
              IN IF derr # NoErr
                   THEN Outcome(c3, derr,
                                IF Contains(derr, WithdrawPhrase)
                                  THEN ErrWithdrawMin ELSE derr,
                                <<>>, p.val)
                   ELSE Outcome(c3 \o <<"EmitOnce">>, NoErr, NoErr,
                                << [Message |-> MsgWithdrawSubmitted] >>, p.val)

\* walletWithdrawCmd.Run; derr is the error of wallet.WalletWithdraw
walletWithdrawRun(c, password, arg, envFail, dec, derr) ==
  IF envFail = "GetNode" THEN Fail(<<"GetNode">>, ErrGetNode)
  ELSE IF envFail = "Config" THEN Fail(<<"GetNode", "Config">>, ErrRepoConfig)
  ELSE
    LET g == validatePassword(c, password, dec)
        c1 == <<"GetNode", "Config">> \o g.calls
    IN IF g.err # NoErr THEN Fail(c1, g.err)
       ELSE
         LET p == ParseInt(arg)
             c2 == c1 \o <<"ParseInt">>
         IN IF p.err # NoErr THEN Fail(c2, p.err)
            ELSE
              LET c3 == c2 \o <<"WalletWithdraw">>
              IN IF derr # NoErr
                   THEN Outcome(c3, derr,
                                IF Contains(derr, WithdrawPhrase)
                                  THEN ErrWithdrawMin ELSE derr,
                                <<>>, p.val)
                   ELSE Outcome(c3 \o <<"EmitOnce">>, NoErr, NoErr,
                                << [Message |-> MsgWithdrawSubmitted] >>, p.val)

\* walletTransferCmd.Run without the call of validatePassword
walletTransferRun_NoGate(c, password, to, arg, envFail, dec, derr, ret) ==
  IF envFail = "GetNode" THEN Fail(<<"GetNode">>, ErrGetNode)
  ELSE IF envFail = "Config" THEN Fail(<<"GetNode", "Config">>, ErrRepoConfig)
  ELSE
    LET p == ParseInt(arg)
        c2 == <<"GetNode", "Config", "ParseInt">>
    IN IF p.err # NoErr THEN Fail(c2, p.err)
       ELSE
         LET c3 == c2 \o <<"TransferBTT">>
         IN IF derr # NoErr
              THEN Outcome(c3, derr, derr, <<>>, p.val)
              ELSE Outcome(c3 \o <<"EmitOnce">>, NoErr, NoErr,
                           << [Result |-> ret.Result,
                               Message |-> "transaction " \o ret.TxId \o " sent"] >>,
                           p.val)

\* walletTransferCmd.Run; derr is the error of wallet.TransferBTT and ret
\* its result
walletTransferRun(c, password, to, arg, envFail, dec, derr, ret) ==
  IF envFail = "GetNode" THEN Fail(<<"GetNode">>, ErrGetNode)
  ELSE IF envFail = "Config" THEN Fail(<<"GetNode", "Config">>, ErrRepoConfig)
  ELSE
    LET g == validatePassword(c, password, dec)
        c1 == <<"GetNode", "Config">> \o g.calls
    IN IF g.err # NoErr THEN Fail(c1, g.err)
       ELSE
         LET p == ParseInt(arg)
             c2 == c1 \o <<"ParseInt">>
         IN IF p.err # NoErr THEN Fail(c2, p.err)
            ELSE
              LET c3 == c2 \o <<"TransferBTT">>
              IN IF derr # NoErr
                   THEN Outcome(c3, derr, derr, <<>>, p.val)
                   ELSE Outcome(c3 \o <<"EmitOnce">>, NoErr, NoErr,
                                << [Result |-> ret.Result,
                                    Message |-> "transaction " \o ret.TxId \o " sent"] >>,
                                p.val)

\* walletCheckPasswordCmd.Run
walletCheckPasswordRun(c, password, envFail, dec) ==
  IF envFail = "GetNode" THEN Fail(<<"GetNode">>, ErrGetNode)
  ELSE IF envFail = "Config" THEN Fail(<<"GetNode", "Config">>, ErrRepoConfig)
  ELSE
    LET g == validatePassword(c, password, dec)
        c1 == <<"GetNode", "Config">> \o g.calls
    IN IF g.err # NoErr THEN Fail(c1, g.err)
       ELSE Outcome(c1 \o <<"EmitOnce">>, NoErr, NoErr,
                    << [Message |-> MsgPasswordCorrect] >>, <<>>)

\* walletKeysCmd.Run
walletKeysRun(c, envFail) ==
  IF envFail = "GetNode" THEN Fail(<<"GetNode">>, ErrGetNode)
  ELSE IF envFail = "Config" THEN Fail(<<"GetNode", "Config">>, ErrRepoConfig)
  ELSE
    LET keys == IF ~c.Initialized
                  THEN [PrivateKey |-> c.PrivKey, Mnemonic |-> c.Mnemonic]
                  ELSE [PrivateKey |-> c.EncryptedPrivKey,
                        Mnemonic |-> c.EncryptedMnemonic]
    IN Outcome(<<"GetNode", "Config", "EmitOnce">>, NoErr, NoErr, <<keys>>, <<>>)

\* walletPasswordCmd.Run: [out, cfg], out the outcome and cfg the config
\* after the run.  encFail names the EncryptWithAES call that fails, setFail
\* tells whether Repo.SetConfig fails.
walletPasswordRun(c, password, envFail, encFail, setFail) ==
  IF envFail = "GetNode" THEN [out |-> Fail(<<"GetNode">>, ErrGetNode), cfg |-> c]
  ELSE IF envFail = "Config"
    THEN [out |-> Fail(<<"GetNode", "Config">>, ErrRepoConfig), cfg |-> c]
  ELSE IF c.Initialized
    THEN [out |-> Fail(<<"GetNode", "Config">>, ErrAlreadyInit), cfg |-> c]
  ELSE IF encFail = "mnemonic"
    THEN [out |-> Fail(<<"GetNode", "Config", "EncryptWithAES">>, ErrEncrypt),
          cfg |-> c]
  ELSE IF encFail = "privkey"
    THEN [out |-> Fail(<<"GetNode", "Config", "EncryptWithAES", "EncryptWithAES">>,
                       ErrEncrypt),
          cfg |-> c]
  ELSE
    LET cipherMnemonic == EncryptWithAES(password, c.Mnemonic)
        cipherPrivKey == EncryptWithAES(password, c.PrivKey)
        updated == [c EXCEPT !.EncryptedMnemonic = cipherMnemonic,
                             !.EncryptedPrivKey = cipherPrivKey]
        calls == <<"GetNode", "Config", "EncryptWithAES", "EncryptWithAES", "SetConfig">>
    IN IF setFail
         THEN [out |-> Fail(calls, ErrSetConfig), cfg |-> c]
         ELSE [out |-> Outcome(calls \o <<"EmitOnce">>, NoErr, NoErr,
                               << [Message |-> MsgPasswordSet] >>, <<>>),
               cfg |-> updated]

-----------------------------------------------------------------------------
(* State *)

NoRun ==
  [cmd |-> "none", pc |-> "idle", pw |-> "", arg |-> <<>>, async |-> FALSE,
   ppm |-> FALSE, calls |-> <<>>, raw |-> NoErr, err |-> NoErr, out |-> <<>>,
   amount |-> <<>>, env |-> <<>>]

\* the record of a command at its return with outcome o
Done(r, o) ==
  [r EXCEPT !.pc = "done", !.calls = o.calls, !.raw = o.raw, !.err = o.err,
            !.out = o.out, !.amount = o.amount]

\* the configs a repo can hold at start: the encrypted fields are empty or
\* hold ciphertexts written earlier, of the current key or of a replaced one
StoredCiphers ==
  { <<"", "">>,
    <<EncryptWithAES("pw1", "k1"), EncryptWithAES("pw1", "m1")>>,
    <<EncryptWithAES("pw1", "k2"), EncryptWithAES("pw1", "m1")>>,
    <<EncryptWithAES("", "k1"), EncryptWithAES("", "m1")>> }

Configs ==
  { [PrivKey |-> "k1", Mnemonic |-> "m1", EncryptedPrivKey |-> e[1],
     EncryptedMnemonic |-> e[2], Initialized |-> i] :
      i \in BOOLEAN, e \in StoredCiphers }

\* the wallet commands, on any config, in a process that is not restarting
Init ==
  /\ cfg \in Configs
  /\ run = NoRun
  /\ nsets = 0
  /\ StorePath = ""
  /\ OriginPath = ""
  /\ osEnviron = <<"HOME=/root">>
  /\ IsDaemon \in BOOLEAN
  /\ dataAt = "origin"
  /\ props = "origin"
  /\ children = <<>>
  /\ exited = FALSE

\* the restart command, on any storage paths and environment
RestartInit ==
  /\ cfg = [PrivKey |-> "k1", Mnemonic |-> "m1", EncryptedPrivKey |-> "",
            EncryptedMnemonic |-> "", Initialized |-> FALSE]
  /\ run = NoRun
  /\ nsets = 0
  /\ StorePath \in Paths
  /\ OriginPath \in Origins
  /\ osEnviron \in Environs
  /\ IsDaemon \in BOOLEAN
  /\ dataAt = "origin"
  /\ props = "origin"
  /\ children = <<>>
  /\ exited = FALSE

\* the process is alive and no request is being handled
Ready == ~exited /\ run.pc \in {"idle", "done"}

\* the process is about to run the handler of command cmd
Running(cmd) == ~exited /\ run.pc = "run" /\ run.cmd = cmd

Frame == UNCHANGED <<StorePath, OriginPath, osEnviron, IsDaemon,
                     dataAt, props, children, exited>>

-----------------------------------------------------------------------------
(* Wallet commands *)

\* A request for one of the wallet subcommands arrives, with the arguments
\* and options the subcommand declares; an absent password option is "".
walletRequest ==
  /\ Ready
  /\ \/ \E password \in Passwords, async \in BOOLEAN, arg \in AmountArgs :
          run' = [NoRun EXCEPT !.cmd = "deposit", !.pc = "run", !.pw = password,
                               !.async = async, !.arg = arg]
     \/ \E cmd \in {"withdraw", "transfer"}, password \in Passwords,
           arg \in AmountArgs :
          run' = [NoRun EXCEPT !.cmd = cmd, !.pc = "run", !.pw = password,
                               !.arg = arg]
     \/ \E cmd \in {"validate_password", "password"}, password \in Passwords :
          run' = [NoRun EXCEPT !.cmd = cmd, !.pc = "run", !.pw = password]
     \/ run' = [NoRun EXCEPT !.cmd = "keys", !.pc = "run"]
  /\ UNCHANGED <<cfg, nsets>>
  /\ Frame

Called(o, name) == \E i \in 1..Len(o.calls) : o.calls[i] = name

\* The results of the calls a run makes are drawn only for the calls it makes:
\* a call that is not reached has no result, and takes the default one.
Consulted(o, dec, envFail, derr) ==
  /\ ~Called(o, "DecryptWithAES")
        => dec = CHOOSE d \in DecryptWithAES(run.pw, cfg.EncryptedPrivKey) : TRUE
  /\ envFail = "GetNode2" => o.err = ErrGetNode
  /\ derr # NoErr => o.raw = derr

walletDeposit ==
  /\ Running("deposit")
  /\ \E envFail \in EnvFails \cup {"GetNode2"},
        derr \in DelegateErrors \cup {NoErr},
        dec \in DecryptWithAES(run.pw, cfg.EncryptedPrivKey) :
       LET o == walletDepositRun(cfg, run.pw, run.async, run.arg, envFail, dec,
                                 IsDaemon, derr)
       IN /\ Consulted(o, dec, envFail, derr)
          /\ run' = Done(run, o)
  /\ UNCHANGED <<cfg, nsets>>
  /\ Frame

walletWithdraw ==
  /\ Running("withdraw")
  /\ \E envFail \in EnvFails, derr \in DelegateErrors \cup {NoErr},
        dec \in DecryptWithAES(run.pw, cfg.EncryptedPrivKey) :
       LET o == walletWithdrawRun(cfg, run.pw, run.arg, envFail, dec, derr)
       IN /\ Consulted(o, dec, envFail, derr)
          /\ run' = Done(run, o)
  /\ UNCHANGED <<cfg, nsets>>
  /\ Frame

walletTransfer ==
  /\ Running("transfer")
  /\ \E to \in Addresses, envFail \in EnvFails,
        derr \in DelegateErrors \cup {NoErr},
        ret \in [TxId : {"tx1"}, Result : BOOLEAN],
        dec \in DecryptWithAES(run.pw, cfg.EncryptedPrivKey) :
       LET o == walletTransferRun(cfg, run.pw, to, run.arg, envFail, dec,
                                  derr, ret)
       IN /\ Consulted(o, dec, envFail, derr)
          /\ o.err # NoErr => ret.Result = FALSE
          /\ run' = Done(run, o)
  /\ UNCHANGED <<cfg, nsets>>
  /\ Frame

walletCheckPassword ==
  /\ Running("validate_password")
  /\ \E envFail \in EnvFails,
        dec \in DecryptWithAES(run.pw, cfg.EncryptedPrivKey) :
       LET o == walletCheckPasswordRun(cfg, run.pw, envFail, dec)
       IN /\ Consulted(o, dec, envFail, NoErr)
          /\ run' = Done(run, o)
  /\ UNCHANGED <<cfg, nsets>>
  /\ Frame

walletKeys ==
  /\ Running("keys")
  /\ \E envFail \in EnvFails :
       run' = Done(run, walletKeysRun(cfg, envFail))
  /\ UNCHANGED <<cfg, nsets>>
  /\ Frame

walletPassword ==
  /\ Running("password")
  /\ \E envFail \in EnvFails, encFail \in {"none", "mnemonic", "privkey"},
        setFail \in BOOLEAN :
       LET r == walletPasswordRun(cfg, run.pw, envFail, encFail, setFail)
       IN /\ encFail # "none" => r.out.err = ErrEncrypt
          /\ setFail => r.out.err = ErrSetConfig
          /\ run' = Done(run, r.out)
          /\ cfg' = r.cfg
          /\ nsets' = IF r.out.err = NoErr /\ nsets < MaxPasswordSets
                        THEN nsets + 1 ELSE nsets
  /\ Frame

-----------------------------------------------------------------------------
(* restartCmd.Run, one step per call it makes *)

Excutable == "btfs"

\* a restart request arrives, with or without --post-path-modification
restartRequest ==
  /\ Ready
  /\ \E ppm \in BOOLEAN :
       run' = [NoRun EXCEPT !.cmd = "restart", !.pc = "run", !.ppm = ppm]
  /\ UNCHANGED <<cfg, nsets>>
  /\ Frame

\* restartBegin relocating as soon as one of the two paths is set
restartBegin_EitherPath ==
  /\ Running("restart")
  /\ run' = [run EXCEPT !.pc = IF run.ppm /\ (StorePath # "" \/ OriginPath # "")
                                 THEN "MoveFolder" ELSE "Start"]
  /\ UNCHANGED <<cfg, nsets>>
  /\ Frame

\* exec.Command(path.Excutable, "daemon") and the test of line 39
restartBegin ==
  /\ Running("restart")
  /\ run' = [run EXCEPT !.pc = IF run.ppm /\ StorePath # "" /\ OriginPath # ""
                                 THEN "MoveFolder" ELSE "Start"]
  /\ UNCHANGED <<cfg, nsets>>
  /\ Frame

restartMoveFolder ==
  /\ ~exited /\ run.cmd = "restart" /\ run.pc = "MoveFolder"
  /\ \E ok \in BOOLEAN :
       IF ok
         THEN /\ dataAt' = "destination"
              /\ run' = [run EXCEPT !.calls = Append(@, "MoveFolder"),
                                    !.pc = "WriteProperties"]
         ELSE /\ dataAt' \in {dataAt, "partial"}
              /\ run' = [run EXCEPT !.calls = Append(@, "MoveFolder"),
                                    !.raw = ErrMoveFolder, !.err = ErrMoveFolder,
                                    !.pc = "done"]
  /\ UNCHANGED <<cfg, nsets, StorePath, OriginPath, osEnviron, IsDaemon,
                 props, children, exited>>

restartWriteProperties ==
  /\ ~exited /\ run.cmd = "restart" /\ run.pc = "WriteProperties"
  /\ \E ok \in BOOLEAN :
       IF ok
         THEN /\ props' = "destination"
              /\ run' = [run EXCEPT !.calls = Append(@, "WriteProperties"),
                                    !.pc = "SetEnv"]
         ELSE /\ props' = props
              /\ run' = [run EXCEPT !.calls = Append(@, "WriteProperties"),
                                    !.raw = ErrWriteProperties,
                                    !.err = ErrWriteProperties,
                                    !.pc = "done"]
  /\ UNCHANGED <<cfg, nsets, StorePath, OriginPath, osEnviron, IsDaemon,
                 dataAt, children, exited>>

\* restartSetEnv handing the origin path to the child
restartSetEnv_OriginPath ==
  /\ ~exited /\ run.cmd = "restart" /\ run.pc = "SetEnv"
  /\ run' = [run EXCEPT !.env = Append(osEnviron, "BTFS_PATH=" \o OriginPath),
                        !.pc = "Start"]
  /\ UNCHANGED <<cfg, nsets>>
  /\ Frame

restartSetEnv ==
  /\ ~exited /\ run.cmd = "restart" /\ run.pc = "SetEnv"
  /\ run' = [run EXCEPT !.env = Append(osEnviron, "BTFS_PATH=" \o StorePath),
                        !.pc = "Start"]
  /\ UNCHANGED <<cfg, nsets>>
  /\ Frame

\* restartStart going on to os.Exit when the child did not start
restartStart_IgnoreError ==
  /\ ~exited /\ run.cmd = "restart" /\ run.pc = "Start"
  /\ \E ok \in BOOLEAN :
       IF ok
         THEN /\ children' =
                   Append(children,
                          [Path |-> Excutable, Args |-> <<"daemon">>,
                           Env |-> run.env,
                           Environ |-> IF run.env = <<>> THEN osEnviron
                                                         ELSE run.env])
              /\ run' = [run EXCEPT !.calls = Append(@, "Start"), !.pc = "Exit"]
         ELSE /\ children' = children
              /\ run' = [run EXCEPT !.calls = Append(@, "Start"),
                                    !.raw = ErrStart, !.pc = "Exit"]
  /\ UNCHANGED <<cfg, nsets, StorePath, OriginPath, osEnviron, IsDaemon,
                 dataAt, props, exited>>

\* daemonCmd.Start(): a nil Env makes the child inherit the environment
restartStart ==
  /\ ~exited /\ run.cmd = "restart" /\ run.pc = "Start"
  /\ \E ok \in BOOLEAN :
       IF ok
         THEN /\ children' =
                   Append(children,
                          [Path |-> Excutable, Args |-> <<"daemon">>,
                           Env |-> run.env,
                           Environ |-> IF run.env = <<>> THEN osEnviron
                                                         ELSE run.env])
              /\ run' = [run EXCEPT !.calls = Append(@, "Start"), !.pc = "Exit"]
         ELSE /\ children' = children
              /\ run' = [run EXCEPT !.calls = Append(@, "Start"),
                                    !.raw = ErrStart, !.err = ErrStart,
                                    !.pc = "done"]
  /\ UNCHANGED <<cfg, nsets, StorePath, OriginPath, osEnviron, IsDaemon,
                 dataAt, props, exited>>

\* os.Exit(0)
restartExit ==
  /\ ~exited /\ run.cmd = "restart" /\ run.pc = "Exit"
  /\ exited' = TRUE
  /\ run' = [run EXCEPT !.calls = Append(@, "Exit"), !.pc = "exited"]
  /\ UNCHANGED <<cfg, nsets, StorePath, OriginPath, osEnviron, IsDaemon,
                 dataAt, props, children>>

-----------------------------------------------------------------------------

Next ==
  \/ walletRequest
  \/ walletDeposit
  \/ walletWithdraw
  \/ walletTransfer
  \/ walletCheckPassword
  \/ walletKeys
  \/ walletPassword

Spec == Init /\ [][Next]_vars

RestartNext ==
  \/ restartRequest
  \/ restartBegin
  \/ restartMoveFolder
  \/ restartWriteProperties
  \/ restartSetEnv
  \/ restartStart
  \/ restartExit

RestartSpec == RestartInit /\ [][RestartNext]_vars

-----------------------------------------------------------------------------
(* Properties *)

GateCmds == {"deposit", "withdraw", "transfer", "validate_password"}
AmountCmds == {"deposit", "withdraw", "transfer"}
Delegates == {"WalletDeposit", "WalletWithdraw", "TransferBTT"}

\* the command of kind cmd has returned
Returned(cmds) == run.cmd \in cmds /\ run.pc = "done"

\* the handler got the node and its config, and went on
GotConfig == run.err \notin {ErrGetNode, ErrRepoConfig} \/ Len(run.calls) > 2

\* the password of the request unlocks the stored key: it is not empty, and
\* decrypting the stored encrypted key with it gives the reference key
Unlocks ==
  /\ run.pw # ""
  /\ \E d \in DecryptWithAES(run.pw, cfg.EncryptedPrivKey) :
        ~d.err /\ d.val = cfg.PrivKey

\* every delegate call and every emit of the run comes after a call of
\* validatePassword, and the password unlocks the stored key
GateFirst ==
  \A i \in 1..Len(run.calls) :
     run.calls[i] \in Delegates \cup {"EmitOnce"}
       => /\ \E j \in 1..(i - 1) : run.calls[j] = "validatePassword"
          /\ Unlocks

\* C1 (as claimed): in every run of deposit, withdraw, transfer,
\* validate_password and keys, no delegate call and no emit happens without a
\* successful validatePassword before it.
C1_GateBeforeAllFive == Returned(GateCmds \cup {"keys"}) => GateFirst

\* C1 (amended): in every run of deposit, withdraw, transfer and
\* validate_password, no delegate call and no emit happens without a
\* successful validatePassword before it; keys never calls validatePassword
\* and emits the keys whenever it got the config.
C1_GateBeforeDelegateAndEmit ==
  /\ Returned(GateCmds) => GateFirst
  /\ Returned({"keys"}) =>
        /\ ~Called(run, "validatePassword")
        /\ GotConfig => Len(run.out) = 1

C1_Witness ==
  /\ Returned({"transfer"})
  /\ Called(run, "TransferBTT")
  /\ Len(run.out) = 1

\* C2 (as claimed): for deposit, withdraw and transfer, an amount that does
\* not parse makes the command return the parse error, whatever the password,
\* with neither validatePassword nor a delegate called.
C2_ParseBeforeGate ==
  (Returned(AmountCmds) /\ GotConfig /\ ParseInt(run.arg).err # NoErr)
    => /\ run.err = ParseInt(run.arg).err
       /\ ~Called(run, "validatePassword")
       /\ \A d \in Delegates : ~Called(run, d)

\* C2 (amended): for deposit, withdraw and transfer, an amount that does not
\* parse makes the command fail with no delegate called and nothing emitted;
\* validatePassword is evaluated first: with a password it rejects the error
\* returned is its error and the amount is not parsed, with a password it
\* accepts the error returned is the parse error.
C2_GateThenParse ==
  (Returned(AmountCmds) /\ GotConfig /\ ParseInt(run.arg).err # NoErr)
    => /\ Called(run, "validatePassword")
       /\ \A d \in Delegates : ~Called(run, d)
       /\ run.out = <<>>
       /\ IF Unlocks
            THEN /\ run.err = ParseInt(run.arg).err
                 /\ run.calls[Len(run.calls)] = "ParseInt"
            ELSE /\ run.err = IF run.pw = "" THEN ErrPasswordRequired
                                             ELSE ErrIncorrectPassword
                 /\ ~Called(run, "ParseInt")

C2_Witness ==
  /\ Returned({"withdraw"})
  /\ ParseInt(run.arg).err # NoErr
  /\ run.err = ParseInt(run.arg).err

\* C3: a password-set run that succeeds is the first one to succeed on the
\* config: once one run has written the encrypted fields, every later run
\* fails and writes nothing.
C3_PasswordSetOnce ==
  (Returned({"password"}) /\ run.err = NoErr) => nsets = 1

\* C7: validatePassword accepts a non-empty password exactly when the stored
\* encrypted key decrypts under it to the reference key: it accepts P when
\* the stored key is the encryption of the reference key under P, it rejects
\* every other non-empty password with "incorrect password"; and a run of a
\* command that only checks the password leaves the config as it was.
C7_State ==
  (Returned(GateCmds) /\ GotConfig /\ run.pw # "")
    => /\ Called(run, "DecryptWithAES")
       /\ IF cfg.EncryptedPrivKey = EncryptWithAES(run.pw, cfg.PrivKey)
            THEN run.err \notin {ErrPasswordRequired, ErrIncorrectPassword}
            ELSE run.err = ErrIncorrectPassword /\ run.out = <<>>

C7_GateAcceptsExactlyTheKey ==
  /\ []C7_State
  /\ [][(run.pc = "run" /\ run.cmd \in GateCmds) => cfg' = cfg]_vars

C7_Witness ==
  /\ Returned({"validate_password"})
  /\ run.pw # ""
  /\ cfg.EncryptedPrivKey = EncryptWithAES(run.pw, cfg.PrivKey)
  /\ run.out = << [Message |-> MsgPasswordCorrect] >>

\* C8: validatePassword called with the empty password fails with the
\* password-required error whatever the stored key is, and without trying to
\* decrypt.
C8_EmptyPasswordIsMissing ==
  (Returned(GateCmds) /\ GotConfig /\ run.pw = "")
    => /\ run.err = ErrPasswordRequired
       /\ run.calls[Len(run.calls)] = "validatePassword"
       /\ ~Called(run, "DecryptWithAES")
       /\ run.out = <<>>

C8_Witness ==
  /\ Returned(GateCmds)
  /\ run.pw = ""
  /\ cfg.EncryptedPrivKey = EncryptWithAES("", cfg.PrivKey)
  /\ run.err = ErrPasswordRequired

\* C9: deposit turns a delegate error containing "Please deposit at least"
\* into the fixed deposit message, withdraw one containing "Please withdraw
\* at least" into the fixed withdraw message; every other error is returned
\* as it was produced, and a run that returns an error emits nothing.
C9_ErrorMapping ==
  Returned(GateCmds) =>
    /\ run.err # NoErr <=> run.raw # NoErr
    /\ run.err # NoErr => run.out = <<>>
    /\ run.raw # NoErr =>
         run.err =
           IF /\ run.cmd = "deposit" /\ Called(run, "WalletDeposit")
              /\ Contains(run.raw, DepositPhrase)
             THEN ErrDepositMin
           ELSE IF /\ run.cmd = "withdraw" /\ Called(run, "WalletWithdraw")
                   /\ Contains(run.raw, WithdrawPhrase)
             THEN ErrWithdrawMin
           ELSE run.raw

C9_Witness ==
  /\ Returned({"deposit"})
  /\ run.raw = <<"rpc", "error:", "Please", "deposit", "at", "least", "10">>
  /\ run.err = ErrDepositMin

\* C10 (as claimed): a deposit that succeeds emits one message, "Done" when
\* the daemon is running and the async flag is unset, "submitted" otherwise.
C10_MessageByDaemonAndAsync ==
  (Returned({"deposit"}) /\ run.err = NoErr)
    => /\ Len(run.out) = 1
       /\ run.out[1].Message = IF IsDaemon /\ ~run.async THEN MsgDepositDone
                                                         ELSE MsgDepositSubmitted

\* C10 (amended): a deposit that succeeds emits one message, "Done" when the
\* daemon is not running and "submitted" when it is running, whatever the
\* async flag.
C10_MessageByDaemon ==
  (Returned({"deposit"}) /\ run.err = NoErr)
    => /\ Len(run.out) = 1
       /\ run.out[1].Message = IF ~IsDaemon THEN MsgDepositDone
                                            ELSE MsgDepositSubmitted

C10_Witness ==
  /\ Returned({"deposit"})
  /\ IsDaemon /\ ~run.async
  /\ Len(run.out) = 1
  /\ run.out[1].Message = MsgDepositSubmitted

-----------------------------------------------------------------------------
(* Properties of the restart command *)

Relocates == run.ppm /\ StorePath # "" /\ OriginPath # ""

\* the restart handler has started to run
Restarting == run.cmd = "restart" /\ run.pc # "run"

IsPrefix(a, b) == Len(a) <= Len(b) /\ \A i \in 1..Len(a) : a[i] = b[i]

\* C4: a restart with the flag set and both paths set moves the storage, then
\* writes the properties, then starts the child with BTFS_PATH=<StorePath>
\* appended to the environment, then exits: the child is started only after
\* the move and the write have succeeded, the exit only after the start has.
C4_RelocationOrder ==
  (Restarting /\ Relocates) =>
    /\ IsPrefix(run.calls, <<"MoveFolder", "WriteProperties", "Start", "Exit">>)
    /\ Called(run, "WriteProperties") => dataAt = "destination"
    /\ Called(run, "Start")
         => /\ dataAt = "destination" /\ props = "destination"
            /\ run.env = Append(osEnviron, "BTFS_PATH=" \o StorePath)
    /\ children # <<>>
         => /\ Len(children) = 1
            /\ children[1].Environ = Append(osEnviron, "BTFS_PATH=" \o StorePath)
    /\ exited => children # <<>>

C4_Witness ==
  /\ Restarting /\ Relocates
  /\ exited
  /\ run.calls = <<"MoveFolder", "WriteProperties", "Start", "Exit">>

\* C5: a restart whose move or property write fails returns the error with
\* no child started and no exit; one whose child fails to start returns the
\* error with no exit; the process exits in exactly the runs whose child
\* started.
C5_State ==
  Restarting =>
    /\ run.err \in {ErrMoveFolder, ErrWriteProperties}
         => ~Called(run, "Start") /\ children = <<>> /\ ~exited /\ run.pc = "done"
    /\ run.err = ErrStart => children = <<>> /\ ~exited /\ run.pc = "done"
    /\ exited => Len(children) = 1 /\ run.err = NoErr
    /\ children # <<>> => run.pc \in {"Exit", "exited"}
    /\ run.pc = "done" => run.err # NoErr

C5_FailuresKeepTheProcess ==
  /\ []C5_State
  /\ [][run.pc = "Exit" => exited']_vars

C5_Witness ==
  /\ Restarting
  /\ run.err = ErrStart
  /\ ~exited

\* C6: a restart moves the storage only if the flag is set and both paths are
\* set; in every other case it calls neither MoveFolder nor WriteProperties,
\* starts the child with the environment of the process, and leaves the
\* storage and its paths as they were.
C6_State ==
  Restarting =>
    /\ Called(run, "MoveFolder") => Relocates
    /\ ~Relocates
         => /\ ~Called(run, "MoveFolder") /\ ~Called(run, "WriteProperties")
            /\ run.env = <<>>
            /\ children # <<>>
                 => children[1].Env = <<>> /\ children[1].Environ = osEnviron

C6_RelocationOnlyWhenAsked ==
  /\ []C6_State
  /\ [][(run.cmd = "restart" /\ ~Relocates)
          => UNCHANGED <<dataAt, props, StorePath, OriginPath>>]_vars

C6_Witness ==
  /\ Restarting
  /\ run.ppm /\ StorePath = "" /\ OriginPath # ""
  /\ exited

====
